---- MODULE Spec2Model ----
(***************************************************************************)
(* Model of benchmark.c: a harness that times two RGBA -> YCbCrA           *)
(* conversion routines (qoy_rgba_to_ycbcra, qoy_rgba_to_ycbcra_rvv) on one *)
(* PNG file or on every *.png entry of a directory, and prints per-file    *)
(* and global averages.                                                    *)
(*                                                                         *)
(* Strings that the code inspects character by character (argv[2], the    *)
(* directory entry names, the paths) are sequences of one-character        *)
(* strings.  The external collaborators (stat, opendir/readdir, stbi_load, *)
(* the clock, the two conversion routines) are the environment: their      *)
(* results are drawn from small sets.                                      *)
(***************************************************************************)
EXTENDS Integers, Sequences, FiniteSets, TLC

VARIABLES
    argc,           \* main's argc
    argv2,          \* argv[2], the <runs> token (a sequence of characters)
    path_kind,      \* what stat()/opendir() say about argv[1]
    dir_entries,    \* the names readdir() yields, in the order it yields them
    decodable,      \* the decoded images stbi_load can return in this run
    pc,             \* position in the program
    ret,            \* where benchmark_image returns to
    dir_pos,        \* how many entries readdir() has returned
    g_sum_c_time_ns, g_sum_rvv_time_ns, g_image_count, g_runs,  \* the globals
    path,           \* benchmark_image: the path parameter
    img,            \* benchmark_image: width/height of the loaded image (and its cost)
    outbuf_size,    \* benchmark_image: outbuf_size
    i,              \* benchmark_image: loop counter
    sum_c, sum_rvv, \* benchmark_image: local sums
    live,           \* heap: the buffers currently allocated
    now,            \* the monotonic clock, in ns
    out,            \* stdout, a sequence of lines
    exit_status,    \* the process's exit status, NoStatus while running
    trace,          \* history: the calls benchmark_image made for the current image
    hist,           \* history: one record per call of benchmark_image
    divisor,        \* history: the divisor of the global average, NoDivisor before it is computed
    double_free,    \* history: some buffer was released twice
    overrun         \* history: a routine wrote more bytes than its buffer holds

vars == <<argc, argv2, path_kind, dir_entries, decodable, pc, ret, dir_pos,
          g_sum_c_time_ns, g_sum_rvv_time_ns, g_image_count, g_runs,
          path, img, outbuf_size, i, sum_c, sum_rvv, live, now, out,
          exit_status, trace, hist, divisor, double_free, overrun>>

-----------------------------------------------------------------------------
(* Bounds and input sets *)

\* The largest number of entries a modelled directory holds.
MaxEntries == 3

\* int is 32 bits wide.
INT_MAX == 2147483647
INT_MIN == -INT_MAX - 1

NoStatus == "running"
NoDivisor == [a |-> 0, b |-> 0, wrapped |-> FALSE]
NoImg == [w |-> 0, h |-> 0, dc |-> 0, drvv |-> 0, cold |-> 0, clr |-> 0]

\* argv[1]
InputPath == <<"i", "n">>

\* The directory entry names the model draws from, in readdir order.
NameList ==
    << <<".">>,
       <<".", ".">>,
       <<".", "p", "n", "g">>,
       <<"a", ".", "p", "n", "g">>,
       <<"b", "b", ".", "p", "n", "g">>,
       <<"c", ".", "p", "n", "g">>,
       <<"d", ".", "P", "N", "G">>,
       <<"e", ".", "t", "x", "t">>,
       <<"p", "n", "g">> >>

\* The <runs> tokens of the step-by-step specification.
Tokens ==
    { <<"0">>, <<"-", "5">>, <<"a", "b", "c">>, <<>>, <<"-">>,
      <<"1">>, <<"+", "1">>, <<"2">>, <<" ", "2">>, <<"2", "x">>, <<"3">> }

\* The <runs> tokens of the whole-image specification: up to INT_MAX - 1.
WideTokens ==
    { <<"1">>, <<"2">>,
      <<"1", "0", "7", "3", "7", "4", "1", "8", "2", "4">>,
      <<"2", "1", "4", "7", "4", "8", "3", "6", "4", "6">> }

\* What stbi_load can decode: width, height, and what the clock advances by
\* during one call of each routine on that image (dc, drvv) and during one
\* memset of an output buffer (clr); the first call of a routine on an image
\* takes `cold` more (cold caches).
Images ==
    { [w |-> 1, h |-> 1, dc |-> 400,  drvv |-> 300,  cold |-> 250, clr |-> 20],
      [w |-> 2, h |-> 2, dc |-> 1700, drvv |-> 600,  cold |-> 250, clr |-> 50],
      [w |-> 4, h |-> 3, dc |-> 5200, drvv |-> 1100, cold |-> 250, clr |-> 120] }

\* Images of the whole-image specification, on a clock whose tick is longer
\* than a conversion (the clock() fallback of ns()): a call advances the clock
\* by one tick or by none.
WideImages ==
    { [w |-> 2, h |-> 2, dc |-> 1, drvv |-> 0, cold |-> 0, clr |-> 0],
      [w |-> 2, h |-> 2, dc |-> 0, drvv |-> 0, cold |-> 1, clr |-> 0],
      [w |-> 4, h |-> 2, dc |-> 0, drvv |-> 1, cold |-> 0, clr |-> 0] }

PathKinds == {"nostat", "other", "file", "dir", "dir_noopen"}

-----------------------------------------------------------------------------
(* Pure functions of the program *)

Digit == [c \in {"0", "1", "2", "3", "4", "5", "6", "7", "8", "9"} |->
            CASE c = "0" -> 0 [] c = "1" -> 1 [] c = "2" -> 2 [] c = "3" -> 3
              [] c = "4" -> 4 [] c = "5" -> 5 [] c = "6" -> 6 [] c = "7" -> 7
              [] c = "8" -> 8 [] c = "9" -> 9]

RECURSIVE SkipSpace(_, _)
SkipSpace(s, k) ==
    IF k <= Len(s) /\ s[k] = " " THEN SkipSpace(s, k + 1) ELSE k

RECURSIVE ParseDigits(_, _, _)
ParseDigits(s, k, acc) ==
    IF k <= Len(s) /\ s[k] \in DOMAIN Digit
    THEN ParseDigits(s, k + 1, acc * 10 + Digit[s[k]])
    ELSE acc

\* atoi: leading blanks, an optional sign, then the longest run of digits;
\* 0 when there is none.
atoi(s) ==
    LET k == SkipSpace(s, 1)
        signed == k <= Len(s) /\ s[k] \in {"-", "+"}
        neg == k <= Len(s) /\ s[k] = "-"
        v == ParseDigits(s, IF signed THEN k + 1 ELSE k, 0)
    IN IF neg THEN -v ELSE v

CoerceRunsNegOnly(n) == IF n < 0 THEN 1 ELSE n

\* if(g_runs <= 0) g_runs=1;
CoerceRuns(n) == IF n <= 0 THEN 1 ELSE n

IsDotOrDotDot(name) == name = <<".">> \/ name = <<".", ".">>

IsPngNameAnyLength(name) ==
    Len(name) >= 4 /\ SubSeq(name, Len(name) - 3, Len(name)) = <<".", "p", "n", "g">>

\* len>4 && strcmp(ent->d_name + (len-4), ".png")==0
IsPngName(name) ==
    Len(name) > 4 /\ SubSeq(name, Len(name) - 3, Len(name)) = <<".", "p", "n", "g">>

\* snprintf(filepath, sizeof(filepath), "%s/%s", dirpath, ent->d_name)
FilePath(dirpath, name) == dirpath \o <<"/">> \o name

\* int block_size = (4 == 4)? 10: 6;
BlockSize == 10

\* int outbuf_size = (width>>1)*height* block_size;
OutbufSize(width, height) == (width \div 2) * height * BlockSize

\* What a conversion routine writes for a 4-channel image: one block of
\* BlockSize bytes for every 2x2 pixel block the image is covered by.
RoutineBytes(width, height) == ((width + 1) \div 2) * ((height + 1) \div 2) * BlockSize

\* What an int multiplication yields: the product when it fits an int;
\* otherwise the behaviour is undefined, and the 32-bit multiply instruction
\* that gcc and clang emit leaves the product modulo 2^32.
RECURSIVE WrapMul(_, _)
WrapMul(a, b) ==
    IF a = 0 THEN 0
    ELSE LET r == WrapMul(a - 1, b)
         IN IF r >= 0 /\ r > INT_MAX - b
            THEN (r - INT_MAX - 1) + (b - INT_MAX - 1)
            ELSE r + b

IntMulOverflows(a, b) == IF a > 0 THEN b > INT_MAX \div a ELSE FALSE

\* The outcomes of the int multiplication a*b, with a >= 0 and b >= 1.  When
\* the product does not fit an int the behaviour is undefined: a build that
\* multiplies in a 32-bit register leaves the product modulo 2^32 (wrapped), one
\* that keeps the operands in 64-bit registers leaves the product itself.
IntMulOutcomes(a, b) ==
    IF IntMulOverflows(a, b)
    THEN { [a |-> a, b |-> b, wrapped |-> TRUE], [a |-> a, b |-> b, wrapped |-> FALSE] }
    ELSE { [a |-> a, b |-> b, wrapped |-> FALSE] }

\* printf("%.3f", x / 1.0e6) for x = q ns and a fraction of a ns: the value in
\* ms rounded to thousandths.  thou is the number of thousandths printed.
\* The quotient is rounded as a real number; the double the code divides
\* differs from it by a rounding error that matters only next to a half
\* thousandth, which the costs of Images and WideImages stay away from.
Thousandths(q) == (q \div 1000) + (IF q % 1000 >= 500 THEN 1 ELSE 0)

\* (double)sum / n / 1.0e6, printed with %.3f, for an int n
Fmt3Ms(sum, n) ==
    IF n = 0 THEN [kind |-> IF sum = 0 THEN "nan" ELSE "inf", neg |-> FALSE, thou |-> 0]
    ELSE IF n = INT_MIN THEN [kind |-> "num", neg |-> TRUE, thou |-> 0]
    ELSE LET m == IF n < 0 THEN -n ELSE n
         IN [kind |-> "num", neg |-> n < 0, thou |-> Thousandths(sum \div m)]

\* (double)sum / (double)(a*b) / 1.0e6, printed with %.3f, for the outcome d
\* of the multiplication
Fmt3MsBy(sum, d) ==
    IF d.wrapped THEN Fmt3Ms(sum, WrapMul(d.a, d.b))
    ELSE IF d.a = 0 \/ d.b = 0 THEN Fmt3Ms(sum, 0)
    ELSE [kind |-> "num", neg |-> FALSE, thou |-> Thousandths((sum \div d.a) \div d.b)]

\* The lines the program prints.
UsageLine == [k |-> "usage"]
LoadErrorLine(p) == [k |-> "load_error", path |-> p]
FileLine(p, w, h) == [k |-> "file", path |-> p, w |-> w, h |-> h]
RunsLine(runs, c, rvv) == [k |-> "runs", runs |-> runs, c |-> c, rvv |-> rvv]
NoOpenLine(p) == [k |-> "no_open", path |-> p]
NeitherLine == [k |-> "neither"]
CannotStatLine(p) == [k |-> "cannot_stat", path |-> p]
GlobalLine(n) == [k |-> "global", n |-> n]
CVersionLine(ms) == [k |-> "c_version", ms |-> ms]
RvvVersionLine(ms) == [k |-> "rvv_version", ms |-> ms]
NoPngLine == [k |-> "no_png"]

-----------------------------------------------------------------------------
(* The directories the model draws from *)

RECURSIVE PickNames(_, _)
PickNames(idx, k) ==
    IF k > Len(NameList) THEN <<>>
    ELSE (IF k \in idx THEN <<NameList[k]>> ELSE <<>>) \o PickNames(idx, k + 1)

Reverse(seq) == [k \in 1..Len(seq) |-> seq[Len(seq) + 1 - k]]

\* readdir imposes no order: every directory is listed in NameList's order and
\* in the opposite order.
Listings ==
    LET sets == { s \in SUBSET (1..Len(NameList)) : Cardinality(s) <= MaxEntries }
    IN { PickNames(idx, 1) : idx \in sets } \cup { Reverse(PickNames(idx, 1)) : idx \in sets }

-----------------------------------------------------------------------------
(* Initial states: the command line and the file system *)

InitProgram ==
    /\ pc = "main"
    /\ ret = "summary"
    /\ dir_pos = 0
    /\ g_sum_c_time_ns = 0
    /\ g_sum_rvv_time_ns = 0
    /\ g_image_count = 0
    /\ g_runs = 1
    /\ path = <<>>
    /\ img = NoImg
    /\ outbuf_size = 0
    /\ i = 0
    /\ sum_c = 0
    /\ sum_rvv = 0
    /\ live = {}
    /\ now = 0
    /\ out = <<>>
    /\ exit_status = NoStatus
    /\ trace = <<>>
    /\ hist = <<>>
    /\ divisor = NoDivisor
    /\ double_free = FALSE
    /\ overrun = FALSE

InitInputs(tokens) ==
    /\ argc \in 1..3
    /\ argv2 \in (IF argc < 3 THEN {<<>>} ELSE tokens)
    /\ path_kind \in (IF argc < 3 THEN {"nostat"} ELSE PathKinds)
    /\ dir_entries \in (IF path_kind = "dir" THEN Listings ELSE {<<>>})

Init ==
    /\ InitInputs(Tokens)
    /\ decodable = Images
    /\ InitProgram

WideInit ==
    /\ InitInputs(WideTokens)
    /\ decodable = WideImages
    /\ InitProgram

-----------------------------------------------------------------------------
(* main, up to the call of benchmark_directory or benchmark_image *)

printf(line) == out' = Append(out, line)

UsageStep(status) ==
    /\ pc = "main"
    /\ argc < 3
    /\ printf(UsageLine)
    /\ exit_status' = status
    /\ pc' = "exit"
    /\ UNCHANGED <<argc, argv2, path_kind, dir_entries, decodable, ret, dir_pos,
                   g_sum_c_time_ns, g_sum_rvv_time_ns, g_image_count, g_runs,
                   path, img, outbuf_size, i, sum_c, sum_rvv, live, now,
                   trace, hist, divisor, double_free, overrun>>

Main_UsageExit1 == UsageStep(1)

\* if(argc < 3) { printf("Usage: ..."); return 0; }
Main_Usage == UsageStep(0)

\* g_runs = atoi(argv[2]); if(g_runs <= 0) g_runs=1;
Main_Parse ==
    /\ pc = "main"
    /\ argc >= 3
    /\ g_runs' = CoerceRuns(atoi(argv2))
    /\ pc' = "stat"
    /\ UNCHANGED <<argc, argv2, path_kind, dir_entries, decodable, ret, dir_pos,
                   g_sum_c_time_ns, g_sum_rvv_time_ns, g_image_count,
                   path, img, outbuf_size, i, sum_c, sum_rvv, live, now, out,
                   exit_status, trace, hist, divisor, double_free, overrun>>

MainUnchanged ==
    UNCHANGED <<argc, argv2, path_kind, dir_entries, decodable, dir_pos,
                g_sum_c_time_ns, g_sum_rvv_time_ns, g_image_count, g_runs,
                img, outbuf_size, i, sum_c, sum_rvv, live, now,
                exit_status, trace, hist, divisor, double_free, overrun>>

\* stat(input_path, &st) != 0
Main_CannotStat ==
    /\ pc = "stat"
    /\ path_kind = "nostat"
    /\ printf(CannotStatLine(InputPath))
    /\ pc' = "summary"
    /\ UNCHANGED <<ret, path>>
    /\ MainUnchanged

\* neither S_ISDIR nor S_ISREG
Main_Neither ==
    /\ pc = "stat"
    /\ path_kind = "other"
    /\ printf(NeitherLine)
    /\ pc' = "summary"
    /\ UNCHANGED <<ret, path>>
    /\ MainUnchanged

\* S_ISREG: benchmark_image(input_path, g_runs)
Main_File ==
    /\ pc = "stat"
    /\ path_kind = "file"
    /\ path' = InputPath
    /\ ret' = "summary"
    /\ pc' = "bi_load"
    /\ UNCHANGED out
    /\ MainUnchanged

\* S_ISDIR: benchmark_directory(input_path, g_runs)
Main_Dir ==
    /\ pc = "stat"
    /\ path_kind \in {"dir", "dir_noopen"}
    /\ pc' = "opendir"
    /\ UNCHANGED <<ret, path, out>>
    /\ MainUnchanged

-----------------------------------------------------------------------------
(* benchmark_directory *)

\* opendir fails
Dir_OpenFail ==
    /\ pc = "opendir"
    /\ path_kind = "dir_noopen"
    /\ printf(NoOpenLine(InputPath))
    /\ pc' = "summary"
    /\ UNCHANGED <<ret, path>>
    /\ MainUnchanged

Dir_Open ==
    /\ pc = "opendir"
    /\ path_kind = "dir"
    /\ pc' = "readdir"
    /\ UNCHANGED <<ret, path, out>>
    /\ MainUnchanged

DirUnchanged ==
    UNCHANGED <<argc, argv2, path_kind, dir_entries, decodable,
                g_sum_c_time_ns, g_sum_rvv_time_ns, g_image_count, g_runs,
                img, outbuf_size, i, sum_c, sum_rvv, live, now, out,
                exit_status, trace, hist, divisor, double_free, overrun>>

\* readdir returns NULL: closedir, return to main
Dir_End ==
    /\ pc = "readdir"
    /\ dir_pos = Len(dir_entries)
    /\ pc' = "summary"
    /\ UNCHANGED <<ret, path, dir_pos>>
    /\ DirUnchanged

\* "." and "..": continue
Dir_SkipDots ==
    /\ pc = "readdir"
    /\ dir_pos < Len(dir_entries)
    /\ IsDotOrDotDot(dir_entries[dir_pos + 1])
    /\ dir_pos' = dir_pos + 1
    /\ UNCHANGED <<pc, ret, path>>
    /\ DirUnchanged

\* an entry that fails the suffix test: next entry
Dir_NotPng ==
    /\ pc = "readdir"
    /\ dir_pos < Len(dir_entries)
    /\ ~IsDotOrDotDot(dir_entries[dir_pos + 1])
    /\ ~IsPngName(dir_entries[dir_pos + 1])
    /\ dir_pos' = dir_pos + 1
    /\ UNCHANGED <<pc, ret, path>>
    /\ DirUnchanged

\* an entry that passes it: benchmark_image(filepath, runs)
Dir_Png ==
    /\ pc = "readdir"
    /\ dir_pos < Len(dir_entries)
    /\ ~IsDotOrDotDot(dir_entries[dir_pos + 1])
    /\ IsPngName(dir_entries[dir_pos + 1])
    /\ dir_pos' = dir_pos + 1
    /\ path' = FilePath(InputPath, dir_entries[dir_pos + 1])
    /\ ret' = "readdir"
    /\ pc' = "bi_load"
    /\ DirUnchanged

-----------------------------------------------------------------------------
(* benchmark_image *)

Buffers == {"rgba", "out_c", "out_rvv"}

\* The history record of one call of benchmark_image.
Target(p, ok) ==
    [path |-> p, ok |-> ok, calls_c |-> 0, calls_rvv |-> 0,
     timed_c |-> 0, timed_rvv |-> 0, meas_c |-> 0, meas_rvv |-> 0,
     pure_c |-> 0, pure_rvv |-> 0, done |-> FALSE]

Last(seq) == seq[Len(seq)]
SetLast(seq, x) == [seq EXCEPT ![Len(seq)] = x]

\* The local state the statements of benchmark_image work on.
Locals == [now |-> now, sum_c |-> sum_c, sum_rvv |-> sum_rvv,
           trace |-> trace, h |-> Last(hist)]

ImageUnchanged ==
    UNCHANGED <<argc, argv2, path_kind, dir_entries, decodable, ret, dir_pos,
                g_runs, path, exit_status, divisor, double_free>>

LoadFailStep(next) ==
    /\ pc = "bi_load"
    /\ printf(LoadErrorLine(path))
    /\ hist' = Append(hist, Target(path, FALSE))
    /\ trace' = <<>>
    /\ pc' = next
    /\ UNCHANGED <<g_sum_c_time_ns, g_sum_rvv_time_ns, g_image_count,
                   img, outbuf_size, i, sum_c, sum_rvv, live, now, overrun>>
    /\ ImageUnchanged

BI_LoadFailAborts == LoadFailStep("summary")

\* stbi_load returns NULL: print the diagnostic and return
BI_LoadFail == LoadFailStep(ret)

\* stbi_load returns the pixels: print the [File] line
BI_LoadOk ==
    /\ pc = "bi_load"
    /\ \E im \in decodable :
          /\ img' = im
          /\ printf(FileLine(path, im.w, im.h))
    /\ live' = live \cup {"rgba"}
    /\ hist' = Append(hist, Target(path, TRUE))
    /\ trace' = <<>>
    /\ pc' = "bi_alloc"
    /\ UNCHANGED <<g_sum_c_time_ns, g_sum_rvv_time_ns, g_image_count,
                   outbuf_size, i, sum_c, sum_rvv, now, overrun>>
    /\ ImageUnchanged

\* outbuf_size, the two mallocs, and sum_c=0, sum_rvv=0 of the declarations
BI_Alloc ==
    /\ pc = "bi_alloc"
    /\ outbuf_size' = OutbufSize(img.w, img.h)
    /\ live' = live \cup {"out_c", "out_rvv"}
    /\ pc' = "bi_warmup"
    /\ UNCHANGED <<g_sum_c_time_ns, g_sum_rvv_time_ns, g_image_count,
                   img, i, sum_c, sum_rvv, now, out, trace, hist, overrun>>
    /\ ImageUnchanged

\* The two warm-up calls: no timestamps, nothing accumulated.
Warmup(im, st) ==
    [st EXCEPT
        !.now = @ + (im.dc + im.cold) + (im.drvv + im.cold),
        !.trace = @ \o <<"call_c", "call_rvv">>,
        !.h = [@ EXCEPT !.calls_c = @ + 1, !.calls_rvv = @ + 1]]

TimedIterBodyClearInside(im, st) ==
    LET t0 == st.now
        a0 == t0 + im.clr
        t1 == a0 + im.dc
        t2 == t1
        a2 == t2 + im.clr
        t3 == a2 + im.drvv
    IN [now |-> t3,
        sum_c |-> st.sum_c + (t1 - t0),
        sum_rvv |-> st.sum_rvv + (t3 - t2),
        trace |-> st.trace \o <<"ns", "clear_c", "call_c", "ns",
                                "ns", "clear_rvv", "call_rvv", "ns">>,
        h |-> [st.h EXCEPT !.calls_c = @ + 1, !.calls_rvv = @ + 1,
                           !.timed_c = @ + 1, !.timed_rvv = @ + 1,
                           !.meas_c = @ + (t1 - t0), !.meas_rvv = @ + (t3 - t2),
                           !.pure_c = @ + im.dc, !.pure_rvv = @ + im.drvv]]

\* One iteration of the timed loop: memset, ns, baseline call, ns, accumulate;
\* memset, ns, accelerated call, ns, accumulate.
TimedIterBody(im, st) ==
    LET a0 == st.now + im.clr
        t0 == a0
        t1 == t0 + im.dc
        a2 == t1 + im.clr
        t2 == a2
        t3 == t2 + im.drvv
    IN [now |-> t3,
        sum_c |-> st.sum_c + (t1 - t0),
        sum_rvv |-> st.sum_rvv + (t3 - t2),
        trace |-> st.trace \o <<"clear_c", "ns", "call_c", "ns",
                                "clear_rvv", "ns", "call_rvv", "ns">>,
        h |-> [st.h EXCEPT !.calls_c = @ + 1, !.calls_rvv = @ + 1,
                           !.timed_c = @ + 1, !.timed_rvv = @ + 1,
                           !.meas_c = @ + (t1 - t0), !.meas_rvv = @ + (t3 - t2),
                           !.pure_c = @ + im.dc, !.pure_rvv = @ + im.drvv]]

\* A routine writes RoutineBytes bytes into a buffer of outbuf_size bytes.  The
\* model records a write past the buffer in `overrun`; what such a write does
\* to the rest of the process is not modelled.
Overruns(im, size) == RoutineBytes(im.w, im.h) > size

SetLocals(st) ==
    /\ now' = st.now
    /\ sum_c' = st.sum_c
    /\ sum_rvv' = st.sum_rvv
    /\ trace' = st.trace
    /\ hist' = SetLast(hist, st.h)

BI_Warmup ==
    /\ pc = "bi_warmup"
    /\ SetLocals(Warmup(img, Locals))
    /\ overrun' = (overrun \/ Overruns(img, outbuf_size))
    /\ i' = 0
    /\ pc' = "bi_loop"
    /\ UNCHANGED <<g_sum_c_time_ns, g_sum_rvv_time_ns, g_image_count,
                   img, outbuf_size, live, out>>
    /\ ImageUnchanged

\* for(int i=0; i<runs; i++)
LoopContinues(k, runs) == k < runs

BI_TimedIter ==
    /\ pc = "bi_loop"
    /\ LoopContinues(i, g_runs)
    /\ SetLocals(TimedIterBody(img, Locals))
    /\ overrun' = (overrun \/ Overruns(img, outbuf_size))
    /\ i' = i + 1
    /\ UNCHANGED <<g_sum_c_time_ns, g_sum_rvv_time_ns, g_image_count,
                   img, outbuf_size, live, out, pc>>
    /\ ImageUnchanged

AccumulateAverage(g, sum, runs) == g + sum \div runs

\* g_sum_c_time_ns += sum_c  (uint64_t: no sum of the model comes near 2^64)
Accumulate(g, sum, runs) == g + sum

\* The averages, the Runs= line, and the global sums and count.
ReportAndAccumulate ==
    /\ printf(RunsLine(g_runs, Fmt3Ms(sum_c, g_runs), Fmt3Ms(sum_rvv, g_runs)))
    /\ g_sum_c_time_ns' = Accumulate(g_sum_c_time_ns, sum_c, g_runs)
    /\ g_sum_rvv_time_ns' = Accumulate(g_sum_rvv_time_ns, sum_rvv, g_runs)
    /\ g_image_count' = g_image_count + 1

BI_Report ==
    /\ pc = "bi_loop"
    /\ ~LoopContinues(i, g_runs)
    /\ ReportAndAccumulate
    /\ hist' = SetLast(hist, [Last(hist) EXCEPT !.done = TRUE])
    /\ pc' = "bi_free"
    /\ UNCHANGED <<img, outbuf_size, i, sum_c, sum_rvv, live, now, trace, overrun>>
    /\ ImageUnchanged

FreeAllButRvv(heap) == heap \ {"rgba", "out_c"}

\* free(rgba); free(out_c); free(out_rvv);
FreeAll(heap) == heap \ Buffers

\* The three frees and the return; the locals go out of scope.
BI_Free ==
    /\ pc = "bi_free"
    /\ live' = FreeAll(live)
    /\ double_free' = (double_free \/ ~(Buffers \subseteq live))
    /\ img' = NoImg
    /\ outbuf_size' = 0
    /\ i' = 0
    /\ sum_c' = 0
    /\ sum_rvv' = 0
    /\ pc' = ret
    /\ UNCHANGED <<argc, argv2, path_kind, dir_entries, decodable, ret, dir_pos,
                   g_runs, path, exit_status, divisor,
                   g_sum_c_time_ns, g_sum_rvv_time_ns, g_image_count,
                   now, out, trace, hist, overrun>>

-----------------------------------------------------------------------------
(* main, after the targets: the summary *)

HasImagesOrNone(n) == n >= 0

\* if(g_image_count>0)
HasImages(n) == n > 0

SummaryUnchanged ==
    UNCHANGED <<argc, argv2, path_kind, dir_entries, decodable, ret, dir_pos,
                g_sum_c_time_ns, g_sum_rvv_time_ns, g_image_count, g_runs,
                path, img, outbuf_size, i, sum_c, sum_rvv, live, now,
                trace, hist, double_free, overrun>>

\* The three global-average lines, then return 0.
Summary_Avg ==
    /\ pc = "summary"
    /\ HasImages(g_image_count)
    /\ \E d \in IntMulOutcomes(g_image_count, g_runs) :
          /\ divisor' = d
          /\ out' = out \o << GlobalLine(g_image_count),
                              CVersionLine(Fmt3MsBy(g_sum_c_time_ns, d)),
                              RvvVersionLine(Fmt3MsBy(g_sum_rvv_time_ns, d)) >>
    /\ exit_status' = 0
    /\ pc' = "exit"
    /\ SummaryUnchanged

\* "No PNG files were processed.", then return 0.
Summary_None ==
    /\ pc = "summary"
    /\ ~HasImages(g_image_count)
    /\ printf(NoPngLine)
    /\ exit_status' = 0
    /\ pc' = "exit"
    /\ UNCHANGED divisor
    /\ SummaryUnchanged

-----------------------------------------------------------------------------
(* The step-by-step specification *)

Next ==
    \/ Main_Usage
    \/ Main_Parse
    \/ Main_CannotStat
    \/ Main_Neither
    \/ Main_File
    \/ Main_Dir
    \/ Dir_OpenFail
    \/ Dir_Open
    \/ Dir_End
    \/ Dir_SkipDots
    \/ Dir_NotPng
    \/ Dir_Png
    \/ BI_LoadFail
    \/ BI_LoadOk
    \/ BI_Alloc
    \/ BI_Warmup
    \/ BI_TimedIter
    \/ BI_Report
    \/ BI_Free
    \/ Summary_Avg
    \/ Summary_None

Spec == Init /\ [][Next]_vars

-----------------------------------------------------------------------------
(* The whole-image specification: benchmark_image on a loadable image as one  *)
(* step, so that run counts up to INT_MAX can be followed.  The values of the *)
(* model end at INT_MAX: the step is left out where the clock or a sum would  *)
(* pass it.                                                                   *)

ZeroLocals(p) ==
    [now |-> 0, sum_c |-> 0, sum_rvv |-> 0, trace |-> <<>>, h |-> Target(p, TRUE)]

Fits(base, n, per) == IF per = 0 THEN TRUE ELSE n <= (INT_MAX - base) \div per

BI_WholeOk ==
    /\ pc = "bi_load"
    /\ \E im \in decodable :
          LET warm == Warmup(im, ZeroLocals(path))             \* what the warm-up adds
              st1 == [warm EXCEPT !.now = now + warm.now]
              one == TimedIterBody(im, ZeroLocals(path))   \* what one iteration adds
              n == g_runs                                  \* iterations with i < runs
              tot_c == n * one.sum_c
              tot_rvv == n * one.sum_rvv
          IN /\ now <= INT_MAX - warm.now
             /\ Fits(st1.now, n, one.now)
             /\ Fits(g_sum_c_time_ns, n, one.sum_c)
             /\ Fits(g_sum_rvv_time_ns, n, one.sum_rvv)
             /\ now' = st1.now + n * one.now
             /\ out' = out \o << FileLine(path, im.w, im.h),
                                 RunsLine(n, Fmt3Ms(tot_c, n), Fmt3Ms(tot_rvv, n)) >>
             /\ g_sum_c_time_ns' = Accumulate(g_sum_c_time_ns, tot_c, n)
             /\ g_sum_rvv_time_ns' = Accumulate(g_sum_rvv_time_ns, tot_rvv, n)
             /\ g_image_count' = g_image_count + 1
             /\ hist' = Append(hist,
                   [st1.h EXCEPT !.calls_c = @ + n, !.calls_rvv = @ + n,
                                 !.timed_c = n, !.timed_rvv = n,
                                 !.meas_c = n * one.h.meas_c, !.meas_rvv = n * one.h.meas_rvv,
                                 !.pure_c = n * one.h.pure_c, !.pure_rvv = n * one.h.pure_rvv,
                                 !.done = TRUE])
             /\ overrun' = (overrun \/ Overruns(im, OutbufSize(im.w, im.h)))
    /\ pc' = ret
    /\ UNCHANGED <<img, outbuf_size, i, sum_c, sum_rvv, live, trace>>
    /\ ImageUnchanged

WideNext ==
    \/ Main_Usage
    \/ Main_Parse
    \/ Main_CannotStat
    \/ Main_Neither
    \/ Main_File
    \/ Main_Dir
    \/ Dir_OpenFail
    \/ Dir_Open
    \/ Dir_End
    \/ Dir_SkipDots
    \/ Dir_NotPng
    \/ Dir_Png
    \/ BI_LoadFail
    \/ BI_WholeOk
    \/ Summary_Avg
    \/ Summary_None

SpecWide == WideInit /\ [][WideNext]_vars

-----------------------------------------------------------------------------
(* Vocabulary of the properties *)

RECURSIVE SumSeq(_)
SumSeq(seq) == IF seq = <<>> THEN 0 ELSE seq[1] + SumSeq(Tail(seq))

\* v = seq[1] + ... + seq[n], for naturals seq[k], without forming the sum
RECURSIVE EqualsSum(_, _)
EqualsSum(v, seq) ==
    IF seq = <<>> THEN v = 0
    ELSE IF v < seq[1] THEN FALSE
    ELSE EqualsSum(v - seq[1], Tail(seq))

LinesOf(kind) == { j \in 1..Len(out) : out[j].k = kind }
Attempts == 1..Len(hist)
Benchmarked == { j \in Attempts : hist[j].done }
FailedLoads == { j \in Attempts : ~hist[j].ok }

EndsWith(name, suffix) ==
    /\ Len(name) >= Len(suffix)
    /\ \A k \in 1..Len(suffix) : name[Len(name) - Len(suffix) + k] = suffix[k]

DotPng == <<".", "p", "n", "g">>

\* The entries of the directory the code selects: longer than the suffix.
SelectedEntries ==
    { k \in 1..Len(dir_entries) : EndsWith(dir_entries[k], DotPng) /\ Len(dir_entries[k]) > 4 }

\* The entries whose name ends with ".png", of any length, "." and ".." apart.
SuffixEntries ==
    { k \in 1..Len(dir_entries) :
        /\ EndsWith(dir_entries[k], DotPng)
        /\ dir_entries[k] \notin { <<".">>, <<".", ".">> } }

AtExit == pc = "exit" /\ argc >= 3
ScannedDirectory == AtExit /\ path_kind = "dir"

-----------------------------------------------------------------------------
\* C1: a target whose load fails is skipped.  The failing step prints exactly
\* the one diagnostic naming the path, leaves g_image_count and both global
\* sums unchanged, calls no routine (the clock and the heap stay as they are)
\* and returns to the caller; at all times each failed path has exactly one
\* diagnostic and g_image_count counts the images benchmarked; and when a
\* directory scan is over every selected entry has been attempted, in order.
C1_FailStepSkips ==
    (pc = "bi_load" /\ pc' # "bi_alloc") =>
        /\ out' = Append(out, [k |-> "load_error", path |-> path])
        /\ g_image_count' = g_image_count
        /\ g_sum_c_time_ns' = g_sum_c_time_ns
        /\ g_sum_rvv_time_ns' = g_sum_rvv_time_ns
        /\ now' = now
        /\ live' = live
        /\ pc' = ret

C1_Accounting ==
    /\ Cardinality(LinesOf("load_error")) = Cardinality(FailedLoads)
    /\ \A j \in FailedLoads :
          /\ Cardinality({ l \in LinesOf("load_error") : out[l].path = hist[j].path }) = 1
          /\ hist[j].calls_c = 0 /\ hist[j].calls_rvv = 0
    /\ pc \notin {"bi_alloc", "bi_warmup", "bi_loop"} =>
          g_image_count = Cardinality(Benchmarked)
    /\ ScannedDirectory =>
          /\ Len(hist) = Cardinality(SelectedEntries)
          /\ \A k \in SelectedEntries :
                \E j \in Attempts : hist[j].path = InputPath \o <<"/">> \o dir_entries[k]

C1_FailedLoadSkipped == [][C1_FailStepSkips]_vars /\ []C1_Accounting

\* One corrupt file first, then two valid ones: image_count = 2.
C1_Witness ==
    /\ ScannedDirectory
    /\ Len(hist) = 3
    /\ ~hist[1].ok /\ hist[2].done /\ hist[3].done
    /\ g_image_count = 2
    /\ Cardinality(LinesOf("load_error")) = 1

-----------------------------------------------------------------------------
\* C2 as stated: after a directory scan in which every selected file decodes,
\* g_image_count is the number of entries whose name ends with ".png" (any
\* length, "." and ".." apart), and exactly those entries are benchmarked.
C2_CountIsSuffixEntries ==
    (ScannedDirectory /\ FailedLoads = {}) =>
        /\ g_image_count = Cardinality(SuffixEntries)
        /\ \A k \in 1..Len(dir_entries) :
              (k \in SuffixEntries) <=>
              (\E j \in Benchmarked : hist[j].path = InputPath \o <<"/">> \o dir_entries[k])

\* C2 amended: after a directory scan in which every selected file decodes,
\* g_image_count is the number of entries whose name ends with ".png" and is
\* longer than four characters, and exactly those entries are benchmarked.
C2_CountIsSelectedEntries ==
    (ScannedDirectory /\ FailedLoads = {}) =>
        /\ g_image_count = Cardinality(SelectedEntries)
        /\ \A k \in 1..Len(dir_entries) :
              (k \in SelectedEntries) <=>
              (\E j \in Benchmarked : hist[j].path = InputPath \o <<"/">> \o dir_entries[k])

\* A directory holding ".png", "a.png" and "d.PNG": one image benchmarked.
C2_Witness ==
    /\ ScannedDirectory
    /\ FailedLoads = {}
    /\ Len(dir_entries) = 3
    /\ \E k \in 1..3 : dir_entries[k] = DotPng
    /\ \E k \in 1..3 : dir_entries[k] = <<"d", ".", "P", "N", "G">>
    /\ g_image_count = 1

-----------------------------------------------------------------------------
\* C3: once argv[2] is parsed, a token "0", "-5" or one without any digit
\* gives what the token "1" gives: g_runs = 1, one timed iteration per routine
\* per image, "Runs=1" on every per-file line and the divisor g_image_count*1;
\* and in every run g_runs >= 1, every image benchmarked has had g_runs timed
\* iterations and the divisor's run count is g_runs.
HasNoDigit(tok) ==
    \A k \in 1..Len(tok) : tok[k] \notin {"0", "1", "2", "3", "4", "5", "6", "7", "8", "9"}

CoercedToken(tok) == tok = <<"0">> \/ tok = <<"-", "5">> \/ HasNoDigit(tok)

RunsAsWith(n) ==
    /\ g_runs = n
    /\ \A j \in Benchmarked : hist[j].timed_c = n /\ hist[j].timed_rvv = n
    /\ \A l \in LinesOf("runs") : out[l].runs = n
    /\ (pc = "exit" /\ g_image_count > 0) =>
          divisor = [a |-> g_image_count, b |-> n, wrapped |-> FALSE]

C3_CoercionLaw ==
    (argc >= 3 /\ pc # "main") =>
        /\ (CoercedToken(argv2) \/ argv2 = <<"1">>) => RunsAsWith(1)
        /\ g_runs >= 1
        /\ RunsAsWith(g_runs)

C3_Witness ==
    /\ AtExit
    /\ argv2 = <<"-", "5">>
    /\ g_image_count = 2
    /\ \A j \in Benchmarked : hist[j].timed_c = 1

-----------------------------------------------------------------------------
\* C4: at the final summary, with at least one image benchmarked, each global
\* sum is the sum of the deltas measured for that routine over the images
\* benchmarked, and the divisor the code uses is the number of timed calls of
\* that routine.
MeasuredC == [j \in Attempts |-> IF hist[j].done THEN hist[j].meas_c ELSE 0]
MeasuredRvv == [j \in Attempts |-> IF hist[j].done THEN hist[j].meas_rvv ELSE 0]
TimedCallsC == [j \in Attempts |-> IF hist[j].done THEN hist[j].timed_c ELSE 0]
TimedCallsRvv == [j \in Attempts |-> IF hist[j].done THEN hist[j].timed_rvv ELSE 0]

\* The value of the divisor is the sum of seq.
DivisorEqualsSum(seq) ==
    IF divisor.wrapped THEN EqualsSum(WrapMul(divisor.a, divisor.b), seq)
    ELSE IF IntMulOverflows(divisor.a, divisor.b)
         THEN /\ Cardinality({ j \in 1..Len(seq) : seq[j] # 0 }) = divisor.a
              /\ \A j \in 1..Len(seq) : seq[j] \in {0, divisor.b}
    ELSE EqualsSum(divisor.a * divisor.b, seq)

C4_SumsAndExactDivisor ==
    (pc = "exit" /\ g_image_count >= 1) =>
        /\ g_sum_c_time_ns = SumSeq(MeasuredC)
        /\ g_sum_rvv_time_ns = SumSeq(MeasuredRvv)
        /\ DivisorEqualsSum(TimedCallsC)
        /\ DivisorEqualsSum(TimedCallsRvv)

-----------------------------------------------------------------------------
\* C5: when exactly one image was benchmarked in the run, the averages printed
\* on its per-file line are the global averages printed in the summary.
C5_SingleFileAverages ==
    (pc = "exit" /\ g_image_count = 1) =>
        /\ Cardinality(LinesOf("runs")) = 1
        /\ Cardinality(LinesOf("c_version")) = 1
        /\ Cardinality(LinesOf("rvv_version")) = 1
        /\ \A r \in LinesOf("runs") :
              /\ \A g \in LinesOf("c_version") : out[g].ms = out[r].c
              /\ \A g \in LinesOf("rvv_version") : out[g].ms = out[r].rvv

\* One image, three runs, an average that does not round to 0.000.
C5_Witness ==
    /\ pc = "exit"
    /\ g_image_count = 1
    /\ g_runs = 3
    /\ \E r \in LinesOf("runs") : out[r].c.thou > 0 /\ out[r].rvv.thou > 0

-----------------------------------------------------------------------------
\* C6: a run that passes argument checking and ends with no image benchmarked
\* prints "No PNG files were processed." exactly once, no global-average line,
\* and computes no divisor; one that benchmarked an image ends with the three
\* global-average lines, once each, and does not print that message.
C6_SummaryCases ==
    AtExit =>
        IF Benchmarked = {}
        THEN /\ Cardinality(LinesOf("no_png")) = 1
             /\ LinesOf("global") \cup LinesOf("c_version") \cup LinesOf("rvv_version") = {}
             /\ divisor = NoDivisor
        ELSE /\ LinesOf("no_png") = {}
             /\ LinesOf("global") = {Len(out) - 2}
             /\ LinesOf("c_version") = {Len(out) - 1}
             /\ LinesOf("rvv_version") = {Len(out)}
             /\ out[Len(out) - 2].n = Cardinality(Benchmarked)

\* Every target of a directory failed to load.
C6_Witness ==
    /\ ScannedDirectory
    /\ Len(hist) = 2
    /\ FailedLoads = {1, 2}
    /\ Cardinality(LinesOf("no_png")) = 1

-----------------------------------------------------------------------------
-----------------------------------------------------------------------------
-----------------------------------------------------------------------------
\* C9: for a loaded image the calls are: the baseline warm-up, the accelerated
\* warm-up, then per iteration: clear baseline buffer, timestamp, baseline
\* call, timestamp, clear accelerated buffer, timestamp, accelerated call,
\* timestamp.  After i iterations each routine has been called i+1 times and i
\* deltas of each have been accumulated, each delta being the time of that
\* routine's call alone; the loop ends after exactly g_runs iterations.
IterationCalls ==
    <<"clear_c", "ns", "call_c", "ns", "clear_rvv", "ns", "call_rvv", "ns">>

RECURSIVE ExpectedTrace(_)
ExpectedTrace(n) ==
    IF n = 0 THEN <<"call_c", "call_rvv">> ELSE ExpectedTrace(n - 1) \o IterationCalls

ProtocolAfter(n) ==
    LET h == hist[Len(hist)]
    IN /\ trace = ExpectedTrace(n)
       /\ h.calls_c = n + 1 /\ h.calls_rvv = n + 1
       /\ h.timed_c = n /\ h.timed_rvv = n
       /\ sum_c = h.meas_c /\ sum_rvv = h.meas_rvv
       /\ sum_c = n * img.dc /\ sum_rvv = n * img.drvv

C9_CallSequence ==
    /\ pc = "bi_loop" => (i <= g_runs /\ ProtocolAfter(i))
    /\ pc = "bi_free" => ProtocolAfter(g_runs)

C9_Witness == pc = "bi_free" /\ g_runs = 1 /\ Len(trace) = 10 /\ sum_c > 0

-----------------------------------------------------------------------------
\* C10: outside benchmark_image (when it has returned, when the next target
\* starts, at the summary and at exit) no image buffer is allocated; inside it
\* the three buffers are allocated from the allocation to the frees; a failed
\* load allocates nothing; no buffer is released twice.
C10_BuffersScoped ==
    /\ pc \in {"main", "stat", "opendir", "readdir", "bi_load", "summary", "exit"} => live = {}
    /\ pc = "bi_alloc" => live = {"rgba"}
    /\ pc \in {"bi_warmup", "bi_loop", "bi_free"} => live = {"rgba", "out_c", "out_rvv"}
    /\ ~double_free

\* The second target starts after the first was benchmarked.
C10_Witness ==
    /\ pc = "bi_load"
    /\ Len(hist) = 1
    /\ hist[1].done
    /\ live = {}

====
